---- MODULE Spec2Model ----
(***************************************************************************)
(* Model of trail-config (src/src/lib.rs): a Config owns a parsed YAML     *)
(* tree, a separator, the resolved file name and an optional environment.  *)
(* Strings are sequences of one-character strings, so that split, replacen *)
(* and strfmt are computed character by character as the code does.        *)
(***************************************************************************)
EXTENDS Integers, Sequences, FiniteSets

(***************************************************************************)
(* Bounds                                                                  *)
(***************************************************************************)
\* longest generated path, in segments joined by "/"
MaxSegs == 2
\* longest generated format template, in characters
MaxTemplateLen == 3
\* number of readers sharing one Config in the concurrent specification
MaxReaders == 2

(***************************************************************************)
(* Strings                                                                 *)
(***************************************************************************)
EmptyStr == << >>

Front(s) == SubSeq(s, 1, Len(s) - 1)

Drop(s, n) == SubSeq(s, n + 1, Len(s))

IsPrefix(p, s) == Len(p) <= Len(s) /\ SubSeq(s, 1, Len(p)) = p

\* does `sub` occur in `s` starting at index i (1-based)
OccursAt(sub, s, i) ==
    /\ i >= 1
    /\ i + Len(sub) - 1 <= Len(s)
    /\ SubSeq(s, i, i + Len(sub) - 1) = sub

RECURSIVE Join(_, _)
Join(segs, sep) ==
    IF segs = << >> THEN EmptyStr
    ELSE IF Len(segs) = 1 THEN segs[1]
    ELSE segs[1] \o sep \o Join(Tail(segs), sep)

\* str::split with a non-empty pattern: leftmost, non-overlapping matches;
\* the piece after the last match is always yielded, even when empty.
RECURSIVE SplitFrom(_, _, _)
SplitFrom(s, sep, cur) ==
    IF s = EmptyStr THEN << cur >>
    ELSE IF IsPrefix(sep, s)
         THEN << cur >> \o SplitFrom(Drop(s, Len(sep)), sep, EmptyStr)
         ELSE SplitFrom(Tail(s), sep, Append(cur, Head(s)))

\* str::split(pattern).collect(): the empty pattern matches at every
\* character boundary, the two ends included.
Split(s, sep) ==
    IF sep = EmptyStr
    THEN << EmptyStr >> \o [i \in 1..Len(s) |-> << s[i] >>] \o << EmptyStr >>
    ELSE SplitFrom(s, sep, EmptyStr)

\* replacen replacing the last occurrence instead of the first
RECURSIVE Replacen1_Last(_, _, _)
Replacen1_Last(s, from, to) ==
    IF Len(s) < Len(from) THEN s
    ELSE IF SubSeq(s, Len(s) - Len(from) + 1, Len(s)) = from
         THEN SubSeq(s, 1, Len(s) - Len(from)) \o to
         ELSE Replacen1_Last(Front(s), from, to) \o << s[Len(s)] >>

\* str::replacen(from, to, 1): the first occurrence only
RECURSIVE Replacen1(_, _, _)
Replacen1(s, from, to) ==
    IF Len(s) < Len(from) THEN s
    ELSE IF IsPrefix(from, s) THEN to \o Drop(s, Len(from))
    ELSE << Head(s) >> \o Replacen1(Tail(s), from, to)

Digit(d) == << "0", "1", "2", "3", "4", "5", "6", "7", "8", "9" >>[d + 1]

RECURSIVE NatToStr(_)
NatToStr(n) ==
    IF n < 10 THEN << Digit(n) >>
    ELSE Append(NatToStr(n \div 10), Digit(n % 10))

\* Display of an integer Number
IntToStr(n) == IF n < 0 THEN << "-" >> \o NatToStr(0 - n) ELSE NatToStr(n)

\* Display of a bool
BoolToStr(b) == IF b THEN << "t", "r", "u", "e" >> ELSE << "f", "a", "l", "s", "e" >>

(***************************************************************************)
(* YAML values                                                             *)
(***************************************************************************)
Null == [kind |-> "Null"]
Bool(b) == [kind |-> "Bool", b |-> b]
Number(n) == [kind |-> "Number", n |-> n]
String(s) == [kind |-> "String", s |-> s]
Sequence(items) == [kind |-> "Sequence", items |-> items]
\* entries: a function from key values to values
Mapping(entries) == [kind |-> "Mapping", entries |-> entries]

None == [some |-> FALSE]
Some(v) == [some |-> TRUE, v |-> v]

\* Value::get(&str): only a mapping is indexed, by the String key equal to
\* the segment; every other kind of node gives None.
ValueGet(content, item) ==
    IF content.kind = "Mapping" /\ String(item) \in DOMAIN content.entries
    THEN Some(content.entries[String(item)])
    ELSE None

(***************************************************************************)
(* Scalar conversion                                                       *)
(***************************************************************************)
\* to_string giving a text to Null as well
ToString_NullAsText(value) ==
    CASE value.kind = "String" -> value.s
      [] value.kind = "Number" -> IntToStr(value.n)
      [] value.kind = "Bool"   -> BoolToStr(value.b)
      [] value.kind = "Null"   -> << "n", "u", "l", "l" >>
      [] OTHER                 -> EmptyStr

\* Config::to_string: String, Number and Bool have a text, the rest is ""
ToString(value) ==
    CASE value.kind = "String" -> value.s
      [] value.kind = "Number" -> IntToStr(value.n)
      [] value.kind = "Bool"   -> BoolToStr(value.b)
      [] OTHER                 -> EmptyStr

\* to_list dropping the elements that have no text
RECURSIVE ScalarsOnly(_)
ScalarsOnly(items) ==
    IF items = << >> THEN << >>
    ELSE IF Head(items).kind \in { "String", "Number", "Bool" }
         THEN << Head(items) >> \o ScalarsOnly(Tail(items))
         ELSE ScalarsOnly(Tail(items))

ToList_DropsNonScalars(value) ==
    IF value.kind = "Sequence"
    THEN LET kept == ScalarsOnly(value.items)
         IN [i \in 1..Len(kept) |-> IF kept[i].kind = "String" THEN kept[i].s
                                    ELSE IF kept[i].kind = "Number" THEN IntToStr(kept[i].n)
                                    ELSE BoolToStr(kept[i].b)]
    ELSE << >>

\* Config::to_list: a Sequence is mapped element by element through to_string
ToList(value) ==
    IF value.kind = "Sequence"
    THEN [i \in 1..Len(value.items) |-> ToString(value.items[i])]
    ELSE << >>

(***************************************************************************)
(* Tree walk                                                               *)
(***************************************************************************)
\* get_leaf giving the node reached so far when a part is not found
RECURSIVE GetLeafLoop_KeepsLastFound(_, _)
GetLeafLoop_KeepsLastFound(content, parts) ==
    IF parts = << >> THEN Some(content)
    ELSE LET r == ValueGet(content, Head(parts))
         IN IF r.some THEN GetLeafLoop_KeepsLastFound(r.v, Tail(parts)) ELSE Some(content)

\* the for loop of get_leaf: follow the parts one by one, returning None at
\* the first part Value::get does not find, Some(content.clone()) at the end
RECURSIVE GetLeafLoop(_, _)
GetLeafLoop(content, parts) ==
    IF parts = << >> THEN Some(content)
    ELSE LET r == ValueGet(content, Head(parts))
         IN IF r.some THEN GetLeafLoop(r.v, Tail(parts)) ELSE None

\* Config::get_leaf
GetLeaf(content, path, separator) == GetLeafLoop(content, Split(path, separator))

(***************************************************************************)
(* strfmt                                                                  *)
(***************************************************************************)
FmtErr == [ok |-> FALSE]
FmtOk(s) == [ok |-> TRUE, s |-> s]

\* index of the first ":" of a placeholder body, 0 when there is none
RECURSIVE ColonAt(_, _)
ColonAt(pattern, i) ==
    IF i > Len(pattern) THEN 0
    ELSE IF pattern[i] = ":" THEN i
    ELSE ColonAt(pattern, i + 1)

\* One placeholder {identifier} or {identifier:spec}. An empty identifier is
\* rejected and the identifier must be a key of vars. The paths, templates
\* and file names of this model only ever produce the empty spec, which
\* yields the value unchanged; width, alignment and type codes are not
\* modelled and a non-empty spec is taken as rejected.
FormatOne(pattern, vars) ==
    LET c == ColonAt(pattern, 1)
        identifier == IF c = 0 THEN pattern ELSE SubSeq(pattern, 1, c - 1)
        spec == IF c = 0 THEN EmptyStr ELSE Drop(pattern, c)
    IN IF identifier = EmptyStr THEN FmtErr
       ELSE IF spec # EmptyStr THEN FmtErr
       ELSE IF identifier \notin DOMAIN vars THEN FmtErr
       ELSE FmtOk(vars[identifier])

\* strfmt's scan of the format string, one character per step:
\*   reading : a "{" is open at index opening
\*   closing : a "}" outside a placeholder was seen and awaits its pair
RECURSIVE StrfmtScan(_, _, _, _, _, _, _)
StrfmtScan(fmtstr, vars, i, out, reading, opening, closing) ==
    IF i > Len(fmtstr)
    THEN IF closing \/ reading THEN FmtErr ELSE FmtOk(out)
    ELSE LET c == fmtstr[i] IN
      IF c = "{" THEN
           IF reading /\ opening = i - 1
           THEN StrfmtScan(fmtstr, vars, i + 1, Append(out, c), FALSE, opening, closing)
           ELSE IF ~reading
           THEN StrfmtScan(fmtstr, vars, i + 1, out, TRUE, i, closing)
           ELSE FmtErr
      ELSE IF c = "}" THEN
           IF ~reading /\ ~closing
           THEN StrfmtScan(fmtstr, vars, i + 1, out, reading, opening, TRUE)
           ELSE IF closing
           THEN StrfmtScan(fmtstr, vars, i + 1, Append(out, c), reading, opening, FALSE)
           ELSE LET r == FormatOne(SubSeq(fmtstr, opening + 1, i - 1), vars)
                IN IF r.ok
                   THEN StrfmtScan(fmtstr, vars, i + 1, out \o r.s, FALSE, opening, closing)
                   ELSE FmtErr
      ELSE IF closing THEN FmtErr
      ELSE IF ~reading
           THEN StrfmtScan(fmtstr, vars, i + 1, Append(out, c), reading, opening, closing)
           ELSE StrfmtScan(fmtstr, vars, i + 1, out, reading, opening, closing)

\* strfmt(fmtstr, vars): vars is a function from names to strings
Strfmt(fmtstr, vars) == StrfmtScan(fmtstr, vars, 1, EmptyStr, FALSE, 0, FALSE)

(***************************************************************************)
(* Config::fmt                                                             *)
(***************************************************************************)
Placeholder == << "{", "}" >>

\* format!("{{{}}}", item)
Named(item) == << "{" >> \o item \o << "}" >>

\* HashMap::insert
MapInsert(vars, k, v) == [x \in DOMAIN vars \cup {k} |-> IF x = k THEN v ELSE vars[x]]

EmptyMap == [x \in {} |-> EmptyStr]

\* fmt's parent loop going on from the same node when a part is not found
RECURSIVE FmtParents_SkipsMissing(_, _)
FmtParents_SkipsMissing(content, parts) ==
    IF parts = << >> THEN Some(content)
    ELSE LET r == ValueGet(content, Head(parts))
         IN IF r.some THEN FmtParents_SkipsMissing(r.v, Tail(parts))
            ELSE FmtParents_SkipsMissing(content, Tail(parts))

\* the for loop of fmt over the parent parts (its own walk, not get_leaf's)
RECURSIVE FmtParents(_, _)
FmtParents(content, parts) ==
    IF parts = << >> THEN Some(content)
    ELSE LET r == ValueGet(content, Head(parts))
         IN IF r.some THEN FmtParents(r.v, Tail(parts)) ELSE None

\* the attribute loop going on to the next attribute when one is not found
RECURSIVE FmtAttributes_SkipsAbsent(_, _, _, _)
FmtAttributes_SkipsAbsent(content, attributes, fmt, vars) ==
    IF attributes = << >> THEN [absent |-> FALSE, fmt |-> fmt, vars |-> vars]
    ELSE LET item == Head(attributes)
             r == ValueGet(content, item)
         IN IF r.some
            THEN FmtAttributes_SkipsAbsent(content, Tail(attributes),
                               Replacen1(fmt, Placeholder, Named(item)),
                               MapInsert(vars, item, ToString(r.v)))
            ELSE FmtAttributes_SkipsAbsent(content, Tail(attributes), fmt, vars)

\* the loop over the attributes of the last segment; absent: an attribute
\* was not found and fmt returns String::new() at once
RECURSIVE FmtAttributes(_, _, _, _)
FmtAttributes(content, attributes, fmt, vars) ==
    IF attributes = << >> THEN [absent |-> FALSE, fmt |-> fmt, vars |-> vars]
    ELSE LET item == Head(attributes)
             r == ValueGet(content, item)
         IN IF r.some
            THEN FmtAttributes(content, Tail(attributes),
                               Replacen1(fmt, Placeholder, Named(item)),
                               MapInsert(vars, item, ToString(r.v)))
            ELSE [absent |-> TRUE]

\* Config::fmt
Fmt(cfg, format, path) ==
    LET all == Split(path, cfg.separator) IN
    IF all = << >> THEN EmptyStr
    ELSE LET last == all[Len(all)]
             parent == FmtParents(cfg.content, Front(all))
         IN IF ~parent.some THEN EmptyStr
            ELSE LET a == FmtAttributes(parent.v, Split(last, << "+" >>), format, EmptyMap)
                 IN IF a.absent THEN EmptyStr
                    ELSE LET r == Strfmt(a.fmt, a.vars)
                         IN IF r.ok THEN r.s ELSE EmptyStr

(***************************************************************************)
(* Readers                                                                 *)
(***************************************************************************)
\* Config::get
Get(cfg, path) == GetLeaf(cfg.content, path, cfg.separator)

\* Config::str
Str(cfg, path) ==
    LET content == GetLeaf(cfg.content, path, cfg.separator)
    IN IF content.some THEN ToString(content.v) ELSE EmptyStr

\* Config::list
List(cfg, path) ==
    LET content == GetLeaf(cfg.content, path, cfg.separator)
    IN IF content.some THEN ToList(content.v) ELSE << >>

\* Config::environment
Environment(cfg) == cfg.environment

\* Config::get_filename
GetFilename(cfg) == cfg.filename

(***************************************************************************)
(* Construction                                                            *)
(***************************************************************************)
Ok(v) == [ok |-> TRUE, v |-> v]
Err(e) == [ok |-> FALSE, e |-> e]

\* A YAML text is kept as what the parser makes of it: a tree, or a syntax
\* error. from_str returns the tree or the error.
YamlText(tree) == [wellformed |-> TRUE, tree |-> tree]
MalformedYaml == [wellformed |-> FALSE]
FromStr(yaml) == IF yaml.wellformed THEN Ok(yaml.tree) ELSE Err("yaml")

EnvKey == << "e", "n", "v" >>

\* get_file using the file name as it is even when an environment is given
GetFile_IgnoresEnvironment(filename, env) ==
    [panic |-> FALSE, file |-> filename, env |-> env]

\* Config::get_file: with an environment the file name goes through strfmt
\* with the single variable env, and the result is unwrapped: panic is TRUE
\* when strfmt returned an error
GetFile(filename, env) ==
    IF env.some
    THEN LET r == Strfmt(filename, [k \in {EnvKey} |-> env.v])
         IN IF r.ok THEN [panic |-> FALSE, file |-> r.s, env |-> Some(env.v)]
            ELSE [panic |-> TRUE]
    ELSE [panic |-> FALSE, file |-> filename, env |-> None]

\* fs::read_to_string over the files of fs (a function from names to texts)
ReadToString(fs, filename) ==
    IF filename \in DOMAIN fs THEN Ok(fs[filename]) ELSE Err("io")

\* Config::load: both ? operators return the error to the caller
Load(fs, filename) ==
    LET yaml == ReadToString(fs, filename)
    IN IF ~yaml.ok THEN Err(yaml.e) ELSE FromStr(yaml.v)

\* Config::new; outcome is "panic" when get_file panicked
ConfigNew(fs, filename, sep, env) ==
    LET f == GetFile(filename, env) IN
    IF f.panic THEN [outcome |-> "panic"]
    ELSE LET yaml == Load(fs, f.file)
         IN IF yaml.ok
            THEN [outcome |-> "ok",
                  config |-> [content |-> yaml.v, filename |-> f.file,
                              separator |-> sep, environment |-> f.env]]
            ELSE [outcome |-> "err", e |-> yaml.e]

\* Config::load_yaml
ConfigLoadYaml(yaml, sep) ==
    LET parsed == FromStr(yaml)
    IN IF parsed.ok
       THEN [outcome |-> "ok",
             config |-> [content |-> parsed.v, filename |-> EmptyStr,
                         separator |-> sep, environment |-> None]]
       ELSE [outcome |-> "err", e |-> parsed.e]

DefaultFilename == << "c", "o", "n", "f", "i", "g", ".", "y", "a", "m", "l" >>
DefaultSeparator == << "/" >>

\* Default::default: new("config.yaml", "/", None).unwrap()
ConfigDefault(fs) ==
    LET r == ConfigNew(fs, DefaultFilename, DefaultSeparator, None)
    IN IF r.outcome = "ok" THEN r ELSE [outcome |-> "panic"]

(***************************************************************************)
(* Inputs                                                                  *)
(***************************************************************************)
\* the function with the given set of << key, value >> pairs (keys distinct)
MapOf(pairs) ==
    [k \in {p[1] : p \in pairs} |-> (CHOOSE p \in pairs : p[1] = k)[2]]

\* the YAML document of the tests module
TestTree ==
    Mapping(MapOf({
        << String(<< "d", "b" >>), Mapping(MapOf({
            << String(<< "r", "e", "d", "i", "s" >>), Mapping(MapOf({
                << String(<< "s", "e", "r", "v", "e", "r" >>), String(<< "1", "2", "7", ".", "0", ".", "0", ".", "1" >>) >>,
                << String(<< "p", "o", "r", "t" >>), Number(6379) >>,
                << String(<< "k", "e", "y", "_", "e", "x", "p", "i", "r", "y" >>), Number(3600) >> })) >>,
            << String(<< "s", "q", "l" >>), Mapping(MapOf({
                << String(<< "d", "r", "i", "v", "e", "r" >>), String(<< "S", "Q", "L", " ", "S", "e", "r", "v", "e", "r" >>) >>,
                << String(<< "s", "e", "r", "v", "e", "r" >>), String(<< "1", "2", "7", ".", "0", ".", "0", ".", "1" >>) >>,
                << String(<< "d", "a", "t", "a", "b", "a", "s", "e" >>), String(<< "m", "y", "_", "d", "b" >>) >>,
                << String(<< "u", "s", "e", "r", "n", "a", "m", "e" >>), String(<< "u", "s", "e", "r" >>) >>,
                << String(<< "p", "a", "s", "s", "w", "o", "r", "d" >>), String(<< "P", "a", "$", "$", "w", "0", "r", "d", "!" >>) >> })) >> })) >>,
        << String(<< "s", "o", "u", "r", "c", "e", "s" >>), Sequence(<< String(<< "o", "n", "e" >>), String(<< "t", "w", "o" >>), String(<< "t", "h", "r", "e", "e" >>) >>) >> }))

\* short keys: every kind of node, an empty key, a key with a colon, a
\* number as a key, values holding braces, a sequence with non-scalars
SmallTree ==
    Mapping(MapOf({
        << String(<< "a" >>), String(<< "{", "}" >>) >>,
        << String(<< "b" >>), Number(0 - 5) >>,
        << String(<< "a", ":" >>), String(<< "w" >>) >>,
        << Number(1), String(<< "k" >>) >>,
        << String(EmptyStr), Mapping(MapOf({
                << String(EmptyStr), String(<< "e" >>) >>,
                << String(<< "a" >>), Mapping(MapOf({
                    << String(EmptyStr), String(<< "f" >>) >> })) >> })) >>,
        << String(<< "c" >>), Mapping(MapOf({
            << String(<< "a" >>), Bool(TRUE) >>,
            << String(<< "b" >>), Sequence(<< String(<< "p" >>), Number(10), Mapping(MapOf({ << String(<< "a" >>), Null >> })), Null, Bool(FALSE), Sequence(<< >>) >>) >>,
            << String(EmptyStr), String(<< "{", "b", "}" >>) >>,
            << String(<< "n" >>), Null >> })) >> }))

\* a document whose root is not a mapping
ScalarTree == String(<< "s" >>)

Trees == { TestTree, SmallTree, ScalarTree }

YamlTexts == { YamlText(t) : t \in Trees } \cup { MalformedYaml }

Separators == { << "/" >>, EmptyStr, << "/", "/" >> }

\* the files that exist
Files ==
    MapOf({ << << "c" >>, YamlText(SmallTree) >>,
            << << "c", "d" >>, YamlText(TestTree) >>,
            << << "c", "p" >>, MalformedYaml >>,
            << << "c", "{", "e", "n", "v", "}" >>, YamlText(ScalarTree) >>,
            << << "c", "{" >>, YamlText(SmallTree) >>,
            << << "c", "{", "}" >>, YamlText(ScalarTree) >>,
            << DefaultFilename, YamlText(TestTree) >> })

FilenameTemplates ==
    { << "c" >>,
      << "c", "{", "e", "n", "v", "}" >>,
      << "{", "e", "n", "v", "}", "{", "e", "n", "v", "}" >>,
      << "c", "{", "{" >>,
      << "c", "}", "}", "{", "e", "n", "v", "}" >>,
      << "c", "{", "x", "}" >>,
      << "{", "e", "n", "v" >>,
      << "c", "{", "}" >>,
      << "c", "{", "e", "n", "v", ":", "}" >>,
      << "m", "i", "s", "s", "i", "n", "g" >> }

Environments == { None, Some(<< "d" >>), Some(<< "p" >>), Some(<< "{", "}" >>), Some(EmptyStr) }

\* path segments the generated paths are made of
Atoms == { EmptyStr, << "a" >>, << "b" >>, << "c" >>, << "a", "+", "b" >>, << "z" >> }

RECURSIVE SeqsUpTo(_, _)
SeqsUpTo(S, n) ==
    IF n = 0 THEN { << >> }
    ELSE LET shorter == SeqsUpTo(S, n - 1)
         IN shorter \cup { Append(t, x) : t \in { u \in shorter : Len(u) = n - 1 }, x \in S }

ExtraPaths ==
    { << "d", "b", "/", "s", "q", "l", "/", "d", "a", "t", "a", "b", "a", "s", "e", "+", "u", "s", "e", "r", "n", "a", "m", "e" >>,
      << "d", "b", "/", "r", "e", "d", "i", "s", "/", "p", "o", "r", "t" >>,
      << "d", "b", "/", "r", "e", "d", "i", "s", "/", "u", "s", "e", "r", "n", "a", "m", "e" >>,
      << "s", "o", "u", "r", "c", "e", "s" >>,
      << "1" >>,
      << "a", ":" >>,
      << "a", ":", "+", "a" >>,
      << "a", "+" >>,
      << "c", "/", "a", "+", "n", "+", "b" >>,
      << "c", "/", "/", "a" >>,
      << "c", "/", "/", "/", "a" >>,
      << "c", "/", "b", "/", "a" >>,
      << "c", "a" >>,
      << "c", "/", "n" >>,
      << "a", "+", "z" >>,
      << "z", "+", "a" >> }

Paths == { Join(segs, << "/" >>) : segs \in SeqsUpTo(Atoms, MaxSegs) } \cup ExtraPaths

TemplateChars == { "{", "}", "x" }

ExtraTemplates ==
    { << "{", "}", ":", "{", "}" >>,
      << "{", "}", "{", "}" >>,
      << "{", "}", "x", "{", "}" >>,
      << "{", "}", "{", "}", "{", "}" >>,
      << "{", "a", "}" >>,
      << "{", "z", "}" >>,
      << "{", "}", "{", "{", "}", "}" >> }

Templates == SeqsUpTo(TemplateChars, MaxTemplateLen) \cup ExtraTemplates

(***************************************************************************)
(* State                                                                   *)
(***************************************************************************)
VARIABLES
    pc,       \* "start", "ready" (a Config was returned), "error" (an Err
              \* was returned) or "panic" (the constructor panicked)
    cfg,      \* None, or Some(the Config the caller holds)
    built,    \* None, or Some(the Config as the constructor returned it)
    err,      \* the error the constructor returned, "" when none
    ctor,     \* the constructor call: its name and arguments
    call,     \* the last reader call made by the single caller
    returned, \* and what it returned, under the name of its return type
    readers   \* the readers sharing the Config, each at some step of a call

vars == << pc, cfg, built, err, ctor, call, returned, readers >>

Readers == 1..MaxReaders

NoCall == [op |-> "none"]
Nothing == [nothing |-> TRUE]

\* the value a call returned, kept under the name of the call's return type:
\* Option<Value>, Vec<String>, Option<&str> or String
Typed(c, r) ==
    CASE c.op = "get" -> [node |-> r]
      [] c.op = "list" -> [list |-> r]
      [] c.op = "environment" -> [env |-> r]
      [] OTHER -> [text |-> r]

\* what the last call of the single caller returned
result ==
    CASE call.op = "get" -> returned.node
      [] call.op = "list" -> returned.list
      [] call.op = "environment" -> returned.env
      [] OTHER -> returned.text
Idle == [pc |-> "idle"]

Init ==
    /\ pc = "start"
    /\ cfg = None
    /\ built = None
    /\ err = ""
    /\ ctor = [fn |-> "none"]
    /\ call = NoCall
    /\ returned = Nothing
    /\ readers = [r \in Readers |-> Idle]

\* what the caller holds after a constructor returned or panicked
Constructed(r) ==
    /\ pc' = CASE r.outcome = "ok" -> "ready"
               [] r.outcome = "err" -> "error"
               [] OTHER -> "panic"
    /\ cfg' = IF r.outcome = "ok" THEN Some(r.config) ELSE None
    /\ built' = cfg'
    /\ err' = IF r.outcome = "err" THEN r.e ELSE ""
    /\ UNCHANGED << call, returned, readers >>

New ==
    /\ pc = "start"
    /\ \E filename \in FilenameTemplates, sep \in Separators, env \in Environments :
        /\ ctor' = [fn |-> "new", filename |-> filename, sep |-> sep, env |-> env]
        /\ Constructed(ConfigNew(Files, filename, sep, env))

LoadYaml ==
    /\ pc = "start"
    /\ \E yaml \in YamlTexts, sep \in Separators :
        /\ ctor' = [fn |-> "load_yaml", yaml |-> yaml, sep |-> sep]
        /\ Constructed(ConfigLoadYaml(yaml, sep))

Default ==
    /\ pc = "start"
    /\ ctor' = [fn |-> "default"]
    /\ Constructed(ConfigDefault(Files))

\* a reader call by the single caller: &self is read, nothing is written
Returned(c, r) ==
    /\ call' = c
    /\ returned' = Typed(c, r)
    /\ UNCHANGED << pc, cfg, built, err, ctor, readers >>

CallGet ==
    /\ pc = "ready"
    /\ call = NoCall
    /\ \E path \in Paths :
        Returned([op |-> "get", path |-> path], Get(cfg.v, path))

CallStr ==
    /\ pc = "ready"
    /\ call = NoCall
    /\ \E path \in Paths :
        Returned([op |-> "str", path |-> path], Str(cfg.v, path))

CallList ==
    /\ pc = "ready"
    /\ call = NoCall
    /\ \E path \in Paths :
        Returned([op |-> "list", path |-> path], List(cfg.v, path))

CallFmt ==
    /\ pc = "ready"
    /\ call = NoCall
    /\ \E format \in Templates, path \in Paths :
        Returned([op |-> "fmt", format |-> format, path |-> path],
                 Fmt(cfg.v, format, path))

CallEnvironment ==
    /\ pc = "ready"
    /\ call = NoCall
    /\ Returned([op |-> "environment"], Environment(cfg.v))

CallGetFilename ==
    /\ pc = "ready"
    /\ call = NoCall
    /\ Returned([op |-> "get_filename"], GetFilename(cfg.v))

\* the caller is done with the returned value and may call again
Consume ==
    /\ call # NoCall
    /\ call' = NoCall
    /\ returned' = Nothing
    /\ UNCHANGED << pc, cfg, built, err, ctor, readers >>

Next ==
    \/ New
    \/ LoadYaml
    \/ Default
    \/ CallGet
    \/ CallStr
    \/ CallList
    \/ CallFmt
    \/ CallEnvironment
    \/ CallGetFilename
    \/ Consume

Spec == Init /\ [][Next]_vars

(***************************************************************************)
(* Reference notions the properties are stated with                        *)
(***************************************************************************)
\* segs is the literal split of s on a non-empty sep: joining the segments
\* with sep gives s back, and each segment ends at the first place where
\* sep occurs (so no segment holds sep, nor straddles one)
IsLiteralSplit(segs, s, sep) ==
    /\ Len(segs) >= 1
    /\ Join(segs, sep) = s
    /\ \A i \in 1..Len(segs) :
          LET piece == IF i < Len(segs) THEN segs[i] \o sep ELSE segs[i]
          IN \A j \in 1..Len(piece) :
                OccursAt(sep, piece, j) => (i < Len(segs) /\ j = Len(segs[i]) + 1)

IsMappingWith(node, key) ==
    node.kind = "Mapping" /\ String(key) \in DOMAIN node.entries

\* the node reached from root by the segments, last segment first; only
\* evaluated where Resolves holds
RECURSIVE NodeAt(_, _)
NodeAt(root, segs) ==
    IF segs = << >> THEN root
    ELSE NodeAt(root, Front(segs)).entries[String(segs[Len(segs)])]

\* every segment is a key of the mapping reached so far
RECURSIVE Resolves(_, _)
Resolves(root, segs) ==
    \/ segs = << >>
    \/ /\ Resolves(root, Front(segs))
       /\ IsMappingWith(NodeAt(root, Front(segs)), segs[Len(segs)])

Called(op) == pc = "ready" /\ call.op = op

(***************************************************************************)
(* C1: get(path) splits the path literally on the separator and walks from *)
(* the root: it returns the exact node reached when every segment is a key *)
(* of the mapping reached so far, and not-found otherwise. As amended:     *)
(* with a non-empty separator the empty path is one empty segment; with    *)
(* the empty separator the path is cut at every character boundary, both   *)
(* ends included, so the empty path is two empty segments.                 *)
(***************************************************************************)
C1_GetWalksLiteralSegments ==
    Called("get") =>
        LET sep == cfg.v.separator
            segs == Split(call.path, sep)
        IN /\ sep # EmptyStr => IsLiteralSplit(segs, call.path, sep)
           /\ (sep # EmptyStr /\ call.path = EmptyStr) => segs = << EmptyStr >>
           /\ sep = EmptyStr =>
                 /\ Len(segs) = Len(call.path) + 2
                 /\ segs[1] = EmptyStr /\ segs[Len(segs)] = EmptyStr
                 /\ \A i \in 1..Len(call.path) : segs[i + 1] = << call.path[i] >>
           /\ result = IF Resolves(cfg.v.content, segs)
                       THEN Some(NodeAt(cfg.v.content, segs))
                       ELSE None

\* a get over a two-character separator that reached a node two levels down
C1_Witness ==
    /\ Called("get")
    /\ cfg.v.separator = << "/", "/" >>
    /\ call.path = << "c", "/", "/", "a" >>
    /\ result = Some(Bool(TRUE))

\* C1 as first stated: for every Config the empty path is one empty segment,
\* so get("") is the lookup of the key "" in the root
C1_Original_EmptyPathIsOneSegment ==
    (Called("get") /\ call.path = EmptyStr) =>
        result = IF IsMappingWith(cfg.v.content, EmptyStr)
                 THEN Some(cfg.v.content.entries[String(EmptyStr)])
                 ELSE None

(***************************************************************************)
(* Canonical texts                                                         *)
(***************************************************************************)
DigitChars == { "0", "1", "2", "3", "4", "5", "6", "7", "8", "9" }

DigitValue(c) ==
    CASE c = "0" -> 0 [] c = "1" -> 1 [] c = "2" -> 2 [] c = "3" -> 3
      [] c = "4" -> 4 [] c = "5" -> 5 [] c = "6" -> 6 [] c = "7" -> 7
      [] c = "8" -> 8 [] c = "9" -> 9

RECURSIVE DecimalValue(_)
DecimalValue(t) ==
    IF t = << >> THEN 0
    ELSE 10 * DecimalValue(Front(t)) + DigitValue(t[Len(t)])

\* t is the decimal numeral of the natural number n, without leading zeros
IsNumeral(t, n) ==
    /\ Len(t) >= 1
    /\ \A i \in 1..Len(t) : t[i] \in DigitChars
    /\ (Len(t) > 1 => t[1] # "0")
    /\ DecimalValue(t) = n

IsScalar(node) == node.kind \in { "Number", "Bool", "String" }

\* t is the canonical text of the scalar node
IsCanonicalText(t, node) ==
    CASE node.kind = "String" -> t = node.s
      [] node.kind = "Bool" ->
            t = IF node.b THEN << "t", "r", "u", "e" >> ELSE << "f", "a", "l", "s", "e" >>
      [] node.kind = "Number" ->
            IF node.n < 0
            THEN Len(t) >= 2 /\ t[1] = "-" /\ IsNumeral(Tail(t), 0 - node.n)
            ELSE IsNumeral(t, node.n)
      [] OTHER -> FALSE

\* t is what the scalar-to-string conversion gives for any node
IsScalarString(t, node) ==
    IF IsScalar(node) THEN IsCanonicalText(t, node) ELSE t = EmptyStr

(***************************************************************************)
(* C2: str(path) is the canonical text of the node get(path) finds when    *)
(* that node is a Number, Bool or String, and the empty string when the    *)
(* path is not found or the node is Null, a Sequence or a Mapping.         *)
(***************************************************************************)
C2_StrIsCanonicalTextOrEmpty ==
    Called("str") =>
        LET found == Get(cfg.v, call.path)
        IN IF found.some /\ IsScalar(found.v)
           THEN IsCanonicalText(result, found.v)
           ELSE result = EmptyStr

\* str on the negative number of the small document
C2_Witness ==
    /\ Called("str")
    /\ Get(cfg.v, call.path) = Some(Number(0 - 5))
    /\ result = << "-", "5" >>

(***************************************************************************)
(* C3: list(path) on a Sequence returns a list of the same length and      *)
(* order whose i-th entry is the scalar-to-string conversion of the i-th   *)
(* element, the empty string for a non-scalar element; it returns the      *)
(* empty list when the path is not found or the node is not a Sequence.    *)
(***************************************************************************)
C3_ListKeepsLengthAndOrder ==
    Called("list") =>
        LET found == Get(cfg.v, call.path)
        IN IF found.some /\ found.v.kind = "Sequence"
           THEN /\ Len(result) = Len(found.v.items)
                /\ \A i \in 1..Len(result) : IsScalarString(result[i], found.v.items[i])
           ELSE result = << >>

\* list on a sequence that holds scalars and non-scalars
C3_Witness ==
    /\ Called("list")
    /\ Len(result) = 6
    /\ result[1] = << "p" >>
    /\ result[3] = EmptyStr
    /\ result[5] = << "f", "a", "l", "s", "e" >>

(***************************************************************************)
(* Reference notions for fmt                                               *)
(***************************************************************************)
\* the number of places where the token {} occurs in the template
CountTokens(template) ==
    Cardinality({ i \in 1..Len(template) : OccursAt(Placeholder, template, i) })

\* every brace of the template belongs to a {} token
OnlyTokenBraces(template) ==
    \A i \in 1..Len(template) :
        /\ template[i] = "{" => (i < Len(template) /\ template[i + 1] = "}")
        /\ template[i] = "}" => (i > 1 /\ template[i - 1] = "{")

\* an attribute name strfmt reads as a plain identifier
PlainName(name) ==
    /\ name # EmptyStr
    /\ \A i \in 1..Len(name) : name[i] \notin { "{", "}", ":" }

\* the template with its {} tokens replaced, from the left, by the texts
RECURSIVE SubstituteInOrder(_, _)
SubstituteInOrder(template, texts) ==
    IF template = << >> THEN << >>
    ELSE IF IsPrefix(Placeholder, template) /\ texts # << >>
         THEN Head(texts) \o SubstituteInOrder(Drop(template, 2), Tail(texts))
         ELSE << Head(template) >> \o SubstituteInOrder(Tail(template), texts)

\* how the path of a fmt call reads: the parent segments, the attribute
\* names of the last segment, whether the parents resolve, and whether all
\* the attributes are then present under the parent node
FmtSegments == Split(call.path, cfg.v.separator)
FmtParentSegments == Front(FmtSegments)
FmtLast == FmtSegments[Len(FmtSegments)]
FmtNames == Split(FmtLast, << "+" >>)
FmtParentsResolve == Resolves(cfg.v.content, FmtParentSegments)
FmtParentNode == NodeAt(cfg.v.content, FmtParentSegments)
FmtAllPresent ==
    /\ FmtParentsResolve
    /\ \A i \in 1..Len(FmtNames) : IsMappingWith(FmtParentNode, FmtNames[i])
FmtTexts == [i \in 1..Len(FmtNames) |-> ToString(FmtParentNode.entries[String(FmtNames[i])])]

TwoTokens == << "{", "}", ":", "{", "}" >>
DatabaseAndUsername ==
    << "d", "b", "/", "s", "q", "l", "/", "d", "a", "t", "a", "b", "a", "s", "e", "+",
       "u", "s", "e", "r", "n", "a", "m", "e" >>
MyDbUser == << "m", "y", "_", "d", "b", ":", "u", "s", "e", "r" >>

(***************************************************************************)
(* C4: when the parents resolve and the last segment names k attributes,   *)
(* all present, fmt(template, path) on a template with k tokens {} is the  *)
(* template with the i-th {} from the left replaced by the scalar string   *)
(* of the i-th attribute, in the order written; fmt("{}:{}",               *)
(* "db/sql/database+username") gives "my_db:user". As amended: the         *)
(* template has no brace outside its k tokens {} and every attribute name  *)
(* is non-empty and free of {, } and :.                                    *)
(***************************************************************************)
C4_FmtSubstitutesInOrder ==
    Called("fmt") =>
        /\ IsLiteralSplit(FmtNames, FmtLast, << "+" >>)
        /\ ( /\ FmtAllPresent
             /\ CountTokens(call.format) = Len(FmtNames)
             /\ OnlyTokenBraces(call.format)
             /\ \A i \in 1..Len(FmtNames) : PlainName(FmtNames[i]) )
           => result = SubstituteInOrder(call.format, FmtTexts)
        /\ ( /\ cfg.v.content = TestTree
             /\ cfg.v.separator = << "/" >>
             /\ call.format = TwoTokens
             /\ call.path = DatabaseAndUsername )
           => result = MyDbUser

\* the call of fmt_test, and its result
C4_Witness ==
    /\ Called("fmt")
    /\ cfg.v.content = TestTree
    /\ call.format = TwoTokens
    /\ call.path = DatabaseAndUsername
    /\ result = MyDbUser

\* C4 as first stated: for every template with k occurrences of {} and
\* every k attribute names that are present
C4_Original_EveryTemplate ==
    ( /\ Called("fmt")
      /\ FmtAllPresent
      /\ CountTokens(call.format) = Len(FmtNames) )
    => result = SubstituteInOrder(call.format, FmtTexts)

(***************************************************************************)
(* C5: fmt returns the empty string, with no partly substituted text,      *)
(* whenever a parent segment is missing or an attribute name of the last   *)
(* segment is absent under the parent node, whatever the template and the  *)
(* position of the absent name.                                            *)
(***************************************************************************)
C5_FmtEmptyWhenAnythingMissing ==
    (Called("fmt") /\ ~FmtAllPresent) => result = EmptyStr

\* the second of two attributes is absent and the template has plain text
C5_Witness ==
    /\ Called("fmt")
    /\ FmtParentsResolve
    /\ Len(FmtNames) = 2
    /\ IsMappingWith(FmtParentNode, FmtNames[1])
    /\ ~IsMappingWith(FmtParentNode, FmtNames[2])
    /\ call.format = << "{", "}", "x" >>
    /\ result = EmptyStr

(***************************************************************************)
(* C6: when all attribute names resolve but the number of {} tokens of the *)
(* template differs from the number of attributes, fmt returns the empty   *)
(* string.                                                                 *)
(***************************************************************************)
C6_CountMismatchGivesEmpty ==
    ( /\ Called("fmt")
      /\ FmtAllPresent
      /\ CountTokens(call.format) # Len(FmtNames) )
    => result = EmptyStr

(***************************************************************************)
(* C10: for a path whose last segment is non-empty and has none of the     *)
(* characters +, {, } and :, fmt("{}", path) equals str(path): the scalar  *)
(* text when the path reaches a Number, Bool or String, the empty string   *)
(* when it is not found or reaches a Null, Sequence or Mapping.            *)
(***************************************************************************)
C10_FmtOfOneTokenIsStr ==
    ( /\ Called("fmt")
      /\ call.format = Placeholder
      /\ FmtLast # EmptyStr
      /\ \A i \in 1..Len(FmtLast) : FmtLast[i] \notin { "+", "{", "}", ":" } )
    => /\ result = Str(cfg.v, call.path)
       /\ IF Resolves(cfg.v.content, FmtSegments)
             /\ IsScalar(NodeAt(cfg.v.content, FmtSegments))
          THEN IsCanonicalText(result, NodeAt(cfg.v.content, FmtSegments))
          ELSE result = EmptyStr

\* fmt("{}", "db/redis/port") on the document of the tests
C10_Witness ==
    /\ Called("fmt")
    /\ call.format = Placeholder
    /\ call.path = << "d", "b", "/", "r", "e", "d", "i", "s", "/", "p", "o", "r", "t" >>
    /\ result = << "6", "3", "7", "9" >>

(***************************************************************************)
(* C7: new either returns a fully initialised Config or returns an error   *)
(* value to the caller; a failure of any construction step (environment    *)
(* substitution, file read, YAML parse) is propagated as an error, never   *)
(* an abnormal termination.                                                *)
(***************************************************************************)
ConfigFields == { "content", "filename", "separator", "environment" }

C7_NewReturnsConfigOrError ==
    ctor.fn = "new" =>
        \/ /\ pc = "ready"
           /\ cfg.some
           /\ DOMAIN cfg.v = ConfigFields
           /\ cfg.v.separator = ctor.sep
           /\ err = ""
        \/ /\ pc = "error"
           /\ cfg = None
           /\ err \in { "io", "yaml" }

(***************************************************************************)
(* C8: with an environment the resolved file name is the template with     *)
(* {env} replaced by the environment, and environment() returns that       *)
(* environment unmodified; without one the file name is the template       *)
(* verbatim and environment() returns none; a Config built by load_yaml    *)
(* has the empty file name and no environment. As amended: the first part  *)
(* holds for a template whose braces all belong to {env} placeholders.     *)
(***************************************************************************)
EnvToken == << "{", "e", "n", "v", "}" >>

\* every brace of the template opens or closes an {env} placeholder
OnlyEnvBraces(template) ==
    \A i \in 1..Len(template) :
        /\ template[i] = "{" => OccursAt(EnvToken, template, i)
        /\ template[i] = "}" => OccursAt(EnvToken, template, i - Len(EnvToken) + 1)

\* the template with every {env} replaced by the text
RECURSIVE ReplaceEnv(_, _)
ReplaceEnv(template, text) ==
    IF template = << >> THEN << >>
    ELSE IF IsPrefix(EnvToken, template)
         THEN text \o ReplaceEnv(Drop(template, Len(EnvToken)), text)
         ELSE << Head(template) >> \o ReplaceEnv(Tail(template), text)

AccessorsAgree(filename, environment) ==
    /\ cfg.v.filename = filename
    /\ cfg.v.environment = environment
    /\ call.op = "get_filename" => result = filename
    /\ call.op = "environment" => result = environment

C8_FilenameResolution ==
    /\ (pc = "ready" /\ ctor.fn = "new" /\ ctor.env.some) =>
          /\ OnlyEnvBraces(ctor.filename) =>
                AccessorsAgree(ReplaceEnv(ctor.filename, ctor.env.v), Some(ctor.env.v))
          /\ cfg.v.environment = Some(ctor.env.v)
          /\ call.op = "environment" => result = Some(ctor.env.v)
    /\ (pc = "ready" /\ ctor.fn = "new" /\ ~ctor.env.some) =>
          AccessorsAgree(ctor.filename, None)
    /\ (pc = "ready" /\ ctor.fn = "load_yaml") =>
          AccessorsAgree(EmptyStr, None)

\* new("c{env}", sep, Some("d")) opened the file "cd", and get_filename says so
C8_Witness ==
    /\ pc = "ready"
    /\ ctor.fn = "new"
    /\ ctor.filename = << "c", "{", "e", "n", "v", "}" >>
    /\ ctor.env = Some(<< "d" >>)
    /\ call.op = "get_filename"
    /\ result = << "c", "d" >>

\* C8 as first stated: for every template
C8_Original_EveryTemplate ==
    (pc = "ready" /\ ctor.fn = "new" /\ ctor.env.some) =>
        cfg.v.filename = ReplaceEnv(ctor.filename, ctor.env.v)

(***************************************************************************)
(* Readers sharing one Config                                              *)
(*                                                                         *)
(* Each reader runs its call one loop iteration at a time, with its own    *)
(* locals (parts, content, attributes, fmt, vars); the steps of different  *)
(* readers interleave freely. Every reader method takes &self.             *)
(***************************************************************************)
SharedCalls ==
    { [op |-> "get", path |-> << "c", "/", "a" >>],
      [op |-> "str", path |-> << "b" >>],
      [op |-> "list", path |-> << "c", "/", "b" >>],
      [op |-> "fmt", format |-> TwoTokens, path |-> DatabaseAndUsername] }

SharedAccessors == { [op |-> "environment"], [op |-> "get_filename"] }

\* what a call returns when nothing was found
Missing(c) ==
    CASE c.op = "get" -> None
      [] c.op = "list" -> << >>
      [] OTHER -> EmptyStr

Done(c, r) == [pc |-> "done", call |-> c, result |-> Typed(c, r)]

\* the local variable content a reader's loop works on: its own
ReaderContent_Shared(rs, r) ==
    IF \E o \in DOMAIN rs : o # r /\ rs[o].pc \in { "walk", "attrs" }
    THEN rs[CHOOSE o \in DOMAIN rs : o # r /\ rs[o].pc \in { "walk", "attrs" }].content
    ELSE rs[r].content

ReaderContent(rs, r) == rs[r].content

\* entry of get, str, list (get_leaf's split) and of fmt (clone, split, pop)
Begin(r) ==
    /\ pc = "ready"
    /\ readers[r].pc \in { "idle", "done" }
    /\ \E c \in SharedCalls :
         LET all == Split(c.path, cfg.v.separator) IN
         readers' = [readers EXCEPT ![r] =
            IF c.op = "fmt"
            THEN IF all = << >> THEN Done(c, EmptyStr)
                 ELSE [pc |-> "walk", call |-> c, content |-> cfg.v.content,
                       parts |-> Front(all), last |-> all[Len(all)]]
            ELSE [pc |-> "walk", call |-> c, content |-> cfg.v.content,
                  parts |-> all, last |-> EmptyStr]]
    /\ UNCHANGED << pc, cfg, built, err, ctor, call, returned >>

\* environment and get_filename return a field
Accessor(r) ==
    /\ pc = "ready"
    /\ readers[r].pc \in { "idle", "done" }
    /\ \E c \in SharedAccessors :
         readers' = [readers EXCEPT ![r] =
            Done(c, IF c.op = "environment" THEN Environment(cfg.v) ELSE GetFilename(cfg.v))]
    /\ UNCHANGED << pc, cfg, built, err, ctor, call, returned >>

\* one iteration of the for loop over the parts, or what follows the loop
WalkStep(r) ==
    /\ readers[r].pc = "walk"
    /\ LET rd == readers[r]
           c == rd.call
           content == ReaderContent(readers, r)
       IN readers' = [readers EXCEPT ![r] =
            IF rd.parts = << >>
            THEN CASE c.op = "get" -> Done(c, Some(content))
                   [] c.op = "str" -> Done(c, ToString(content))
                   [] c.op = "list" -> Done(c, ToList(content))
                   [] OTHER -> [pc |-> "attrs", call |-> c, content |-> content,
                                attributes |-> Split(rd.last, << "+" >>),
                                fmt |-> c.format, vars |-> EmptyMap]
            ELSE LET g == ValueGet(content, Head(rd.parts))
                 IN IF g.some
                    THEN [rd EXCEPT !.content = g.v, !.parts = Tail(rd.parts)]
                    ELSE Done(c, Missing(c))]
    /\ UNCHANGED << pc, cfg, built, err, ctor, call, returned >>

\* one iteration of fmt's loop over the attributes, or the final strfmt
AttrStep(r) ==
    /\ readers[r].pc = "attrs"
    /\ LET rd == readers[r]
           c == rd.call
           content == ReaderContent(readers, r)
       IN readers' = [readers EXCEPT ![r] =
            IF rd.attributes = << >>
            THEN LET f == Strfmt(rd.fmt, rd.vars)
                 IN Done(c, IF f.ok THEN f.s ELSE EmptyStr)
            ELSE LET item == Head(rd.attributes)
                     g == ValueGet(content, item)
                 IN IF g.some
                    THEN [rd EXCEPT !.attributes = Tail(rd.attributes),
                                    !.fmt = Replacen1(rd.fmt, Placeholder, Named(item)),
                                    !.vars = MapInsert(rd.vars, item, ToString(g.v))]
                    ELSE Done(c, EmptyStr)]
    /\ UNCHANGED << pc, cfg, built, err, ctor, call, returned >>

NextShared ==
    \/ New
    \/ LoadYaml
    \/ Default
    \/ \E r \in Readers : Begin(r)
    \/ \E r \in Readers : Accessor(r)
    \/ \E r \in Readers : WalkStep(r)
    \/ \E r \in Readers : AttrStep(r)

SpecShared == Init /\ [][NextShared]_vars

\* what the call returns when it runs alone on the Config
Alone(config, c) ==
    CASE c.op = "get" -> Get(config, c.path)
      [] c.op = "str" -> Str(config, c.path)
      [] c.op = "list" -> List(config, c.path)
      [] c.op = "fmt" -> Fmt(config, c.format, c.path)
      [] c.op = "environment" -> Environment(config)
      [] c.op = "get_filename" -> GetFilename(config)

(***************************************************************************)
(* C9: once construction completes, in every interleaving of get, str,     *)
(* list, fmt, environment and get_filename calls by any number of readers  *)
(* on one Config, the content, filename, separator and environment stay    *)
(* equal to their values at construction, and every call returns what it   *)
(* would return if run alone on the freshly constructed Config.            *)
(***************************************************************************)
C9_ReadersSeeTheConstructedConfig ==
    pc = "ready" =>
        /\ cfg = built
        /\ \A r \in Readers :
              readers[r].pc = "done" =>
                  readers[r].result = Typed(readers[r].call, Alone(built.v, readers[r].call))

\* a fmt call returned its text while another reader was inside its own loop
C9_Witness ==
    /\ pc = "ready"
    /\ \E r, o \in Readers :
          /\ r # o
          /\ readers[r].pc = "done"
          /\ readers[r].call.op = "fmt"
          /\ readers[r].result.text = MyDbUser
          /\ readers[o].pc = "walk"
          /\ readers[o].call.op = "get"
          /\ Len(readers[o].parts) = 2

====
